---- MODULE Spec2Model ----
(***************************************************************************)
(* Model of backend/main.py: the OCR relay with its three operations       *)
(* /ocr/image, /ocr/pdf and /ocr/batch, the image preparation they share   *)
(* and the inference client run_ocr_on_image.  One request is followed     *)
(* from its arrival to its HTTP response; the handler is split at its      *)
(* only suspension point, the await of the inference call.                 *)
(***************************************************************************)
EXTENDS Integers, Sequences, FiniteSets, TLC

\* ------------------------------------------------------------------ bounds
\* Largest number of files in one /ocr/batch request.
MaxFiles == 2
\* Largest number of pages of an uploaded PDF.
MaxPages == 2

\* ------------------------------------------------------- program constants
BaselineDpi == 200
MaxDimension == 4096
PreviewMaxWidth == 1200
ConnectErrorStatus == 503
BadRequestStatus == 400

\* --------------------------------------------------------- float arithmetic
\* Python evaluates  int(a * (n / d))  in IEEE-754 binary64: n / d is rounded
\* to 53 bits, the product is rounded again, int() truncates.  The operators
\* below compute that result exactly with integers, for a, n, d >= 1.

Max(x, y) == IF x >= y THEN x ELSE y

RECURSIVE Pow2(_)
Pow2(k) == IF k <= 0 THEN 1 ELSE 2 * Pow2(k - 1)

\* 2^k mod d
RECURSIVE Pow2Mod(_, _)
Pow2Mod(k, d) == IF k <= 0 THEN 1 % d ELSE (2 * Pow2Mod(k - 1, d)) % d

\* floor(log2(n / d)); the exponent of the binary64 quotient.
RECURSIVE FloorLog2(_, _)
FloorLog2(n, d) ==
    IF n >= 2 * d THEN 1 + FloorLog2(n, 2 * d)
    ELSE IF n < d THEN FloorLog2(2 * n, d) - 1
    ELSE 0

\* Remainder dropped when n / d is rounded to a 53-bit significand, in units
\* of 1/d of the last place: 0 when the quotient is exact.
QuotientRemainder(n, d) == (n * Pow2Mod(52 - FloorLog2(n, d), d)) % d

\* int(a * (n / d)).  When a*n/d is not an integer the rounding errors are
\* far smaller than its distance 1/d to the next integer.  When it is an
\* integer x, the product falls below x iff the quotient was rounded down
\* and a times that error exceeds half the spacing of the doubles below x.
IntMulDiv(a, n, d) ==
    LET x == (a * n) \div d
        exact == (a * n) % d = 0
        r == QuotientRemainder(n, d)
        roundedDown == r # 0 /\ 2 * r < d
        ex == FloorLog2(x, 1)
        eq == FloorLog2(n, d)
        half == IF x = Pow2(ex) THEN 4 ELSE 2
    IN  IF x = 0 \/ ~exact THEN x
        ELSE IF ~roundedDown THEN x
        ELSE IF half * a * r <= d * Pow2(ex - eq) THEN x
        ELSE x - 1


\* ------------------------------------------------------------------- data
\* A declared content type is None or a string, written as its tokens:
\* "image/png" is <<"image", "/", "png">>.
NoneType == [isNone |-> TRUE, s |-> <<>>]
CT(toks) == [isNone |-> FALSE, s |-> toks]

ContentTypes ==
    { NoneType,
      CT(<<>>),
      CT(<<"image", "/", "png">>),
      CT(<<"image">>),
      CT(<<"application", "/", "pdf">>),
      CT(<<"application", "/", "pdf", ";", "charset=binary">>),
      CT(<<"text", "/", "plain">>) }

\* The bytes of an upload: an encoded raster image, a PDF of npages pages,
\* or bytes that neither decoder accepts.
ImageBytes(w, h, mode) == [kind |-> "image", w |-> w, h |-> h, mode |-> mode, npages |-> 0]
PdfBytes(n) == [kind |-> "pdf", w |-> 612, h |-> 792, mode |-> "RGB", npages |-> n]
JunkBytes == [kind |-> "junk", w |-> 0, h |-> 0, mode |-> "", npages |-> 0]

Upload(name, ct, bytes) == [filename |-> name, content_type |-> ct, content |-> bytes]

\* A PIL image: its size, its mode and whose pixels it shows.
Img(w, h, mode, pix) == [w |-> w, h |-> h, mode |-> mode, pix |-> pix]

\* Outcome of a step that may raise.
Ok(v) == [ok |-> TRUE, val |-> v]
Raise(e) == [ok |-> FALSE, exc |-> e]
HTTPException(code, detail) ==
    [type |-> "HTTPException", status_code |-> code, detail |-> detail]
OtherException(type, msg) == [type |-> type, status_code |-> 0, detail |-> msg]

\* ------------------------------------------------------- input normalizer
StartsWith(s, prefix) ==
    Len(s) >= Len(prefix) /\ SubSeq(s, 1, Len(prefix)) = prefix

Truthy(ct) == ~ct.isNone /\ ct.s # <<>>

\* Mutant: the slash of the prefix "image/" is not required.
IsImageTypeAnyImagePrefix(ct) == Truthy(ct) /\ StartsWith(ct.s, <<"image">>)

IsImageType(ct) == Truthy(ct) /\ StartsWith(ct.s, <<"image", "/">>)

IsPdfType(ct) == Truthy(ct) /\ ct.s = <<"application", "/", "pdf">>

\* Image.open(io.BytesIO(content))
ImageOpen(content) ==
    IF content.kind = "image"
    THEN Ok(Img(content.w, content.h, content.mode, <<"upload">>))
    ELSE Raise(OtherException("UnidentifiedImageError", "cannot identify image file"))

\* convert_from_bytes(content, dpi=dpi): one RGB image per page, in page
\* order, the page's size in points scaled by dpi / 72.
RECURSIVE RasterPages(_, _, _)
RasterPages(content, dpi, n) ==
    IF n = 0 THEN <<>>
    ELSE Append(RasterPages(content, dpi, n - 1),
                Img((content.w * dpi) \div 72, (content.h * dpi) \div 72,
                    "RGB", <<"page", n>>))

ConvertFromBytes(content, dpi) ==
    IF content.kind = "pdf"
    THEN Ok(RasterPages(content, dpi, content.npages))
    ELSE Raise(OtherException("PDFPageCountError", "Unable to get page count"))

\* if image.mode in ("RGBA", "P"): image = image.convert("RGB")
ConvertMode(image) ==
    IF image.mode \in {"RGBA", "P"} THEN [image EXCEPT !.mode = "RGB"] ELSE image

\* image.resize((w, h), LANCZOS): Pillow refuses a side smaller than 1.
Resize(image, w, h) ==
    IF w < 1 \/ h < 1
    THEN Raise(OtherException("ValueError", "height and width must be > 0"))
    ELSE Ok([image EXCEPT !.w = w, !.h = h])

\* The size /ocr/image asks of resize when dpi # 200.
ScaledSizeUnclamped(w, h, dpi) ==
    [w |-> IntMulDiv(w, dpi, BaselineDpi), h |-> IntMulDiv(h, dpi, BaselineDpi)]

\* Mutant: the limit on the larger side is not applied.
ScaledSizeNoClamp(w, h, dpi) == Ok(ScaledSizeUnclamped(w, h, dpi))

ScaledSize(w, h, dpi) ==
    LET new == ScaledSizeUnclamped(w, h, dpi)
        \* min(max_dimension / new_width, max_dimension / new_height)
        larger == Max(new.w, new.h)
    IN  IF new.w > MaxDimension \/ new.h > MaxDimension
        THEN IF new.w = 0 \/ new.h = 0
             THEN Raise(OtherException("ZeroDivisionError", "division by zero"))
             ELSE Ok([w |-> IntMulDiv(new.w, MaxDimension, larger),
                      h |-> IntMulDiv(new.h, MaxDimension, larger)])
        ELSE Ok(new)

\* image_for_ocr of /ocr/image.
ImageForOcr(image, dpi) ==
    IF dpi # BaselineDpi
    THEN LET size == ScaledSize(image.w, image.h, dpi)
         IN  IF size.ok THEN Resize(image, size.val.w, size.val.h) ELSE size
    ELSE Ok(image)

\* image_for_ocr of the image branch of /ocr/batch: the image as decoded.
BatchImageForOcr(image, dpi) == Ok(image)

\* ---------------------------------------------------------- image encoder
\* image_to_base64(image, "PNG"): lossless, so the text carries the image.
ImageToBase64(image) ==
    [format |-> "PNG", w |-> image.w, h |-> image.h, mode |-> image.mode,
     pix |-> image.pix]

\* The image /ocr/image hands to image_to_base64_for_preview: the decoded
\* image, not the copy rescaled for inference.
PreviewSourceRescaled(image, image_for_ocr) == image_for_ocr

PreviewSource(image, image_for_ocr) == image

\* image_to_base64_for_preview(image)
ImageToBase64ForPreview(image) ==
    LET resized ==
            IF image.w > PreviewMaxWidth
            THEN Resize(image, PreviewMaxWidth,
                        IntMulDiv(image.h, PreviewMaxWidth, image.w))
            ELSE Ok(image)
    IN  IF ~resized.ok THEN resized
        ELSE LET rgb == ConvertMode(resized.val)
             IN  IF rgb.mode \in {"RGB", "L"}
                 THEN Ok([format |-> "JPEG", w |-> rgb.w, h |-> rgb.h,
                          mode |-> rgb.mode, pix |-> rgb.pix])
                 ELSE Raise(OtherException("OSError", "cannot write mode as JPEG"))

\* -------------------------------------------------------- inference client
\* What the upstream does with one call: it answers with a status and a
\* body, or the connection fails.
HttpReply(status, body) == [kind |-> "http", status |-> status, body |-> body]
ConnectFailure == [kind |-> "connect", status |-> 0, body |-> "connection refused"]

Replies ==
    { HttpReply(200, "{\"response\": \"hello\"}"),
      HttpReply(200, "{}"),
      HttpReply(200, "not json"),
      HttpReply(500, "model crashed"),
      HttpReply(503, "overloaded"),
      ConnectFailure }

IsSuccess(status) == 200 <= status /\ status <= 299

\* response.json() followed by result.get("response", "")
ResponseField(body) ==
    IF body = "{\"response\": \"hello\"}" THEN Ok("hello")
    ELSE IF body = "{}" THEN Ok("")
    ELSE Raise(OtherException("JSONDecodeError", "Expecting value"))

\* Mutant: every upstream error status is reported as 502.
RunOcrOnImageBadGateway(reply) ==
    IF reply.kind = "connect"
    THEN Raise(HTTPException(ConnectErrorStatus,
                             <<"Cannot connect to Ollama: ", reply.body>>))
    ELSE IF ~IsSuccess(reply.status)
    THEN Raise(HTTPException(502, <<"Ollama error: ", reply.body>>))
    ELSE ResponseField(reply.body)

\* run_ocr_on_image, given what the upstream does with its call.
RunOcrOnImage(reply) ==
    IF reply.kind = "connect"
    THEN Raise(HTTPException(ConnectErrorStatus,
                             <<"Cannot connect to Ollama: ", reply.body>>))
    ELSE IF ~IsSuccess(reply.status)
    THEN Raise(HTTPException(reply.status, <<"Ollama error: ", reply.body>>))
    ELSE ResponseField(reply.body)


\* ----------------------------------------------------------- HTTP surface
\* The response of a handler that returns body.
OkResponse(body) == [status |-> 200, body |-> body]

\* The response of /ocr/image and /ocr/pdf when exc leaves the handler: an
\* HTTPException becomes its status and detail, anything else a 500.
ErrorResponse(exc) ==
    IF exc.type = "HTTPException"
    THEN [status |-> exc.status_code, body |-> [detail |-> exc.detail]]
    ELSE [status |-> 500, body |-> "Internal Server Error"]

NoResponse == [status |-> 0, body |-> ""]

DataUri(preview) == <<"data:image/jpeg;base64,", preview>>

\* str(e)
ExcStr(exc) ==
    IF exc.type = "HTTPException"
    THEN <<exc.status_code, ": ", exc.detail>>
    ELSE <<exc.detail>>

\* Mutant: the page number is the 0-based index.
PdfPageEntryZeroBased(i, text, preview) ==
    [page |-> i, text |-> text, image |-> DataUri(preview)]

\* One entry of "pages" of /ocr/pdf, for the page of 0-based index i.
PdfPageEntry(i, text, preview) ==
    [page |-> i + 1, text |-> text, image |-> DataUri(preview)]

\* One entry of "pages" of a PDF item of /ocr/batch.
BatchPageEntry(i, text) == [page |-> i + 1, text |-> text]

\* The items of "results" of /ocr/batch.
PdfItem(f, images, pages) ==
    [filename |-> f.filename, type |-> "pdf", total_pages |-> Len(images),
     pages |-> pages, success |-> TRUE]

ImageItem(f, text) ==
    [filename |-> f.filename, type |-> "image", text |-> text, success |-> TRUE]

UnknownItem(f) ==
    [filename |-> f.filename, type |-> "unknown", success |-> FALSE,
     error |-> <<"Unsupported file type">>]

FailedItem(f, exc) ==
    [filename |-> f.filename, success |-> FALSE, error |-> ExcStr(exc)]

\* Mutant: the handler catches HTTPException only.
BatchCatchesHttpOnly(exc) == exc.type = "HTTPException"

\* except Exception as e: which exceptions the batch loop's handler catches.
BatchCatches(exc) == TRUE

\* Mutant: a failed page is skipped and the loop goes on.
PdfLoopNextSkipsFailure(ok, i, n) ==
    IF i + 1 < n THEN "next" ELSE IF ok THEN "return" ELSE "raise"

\* What the page loop of /ocr/pdf does once the call for the page of 0-based
\* index i, of n pages, is over: an exception leaves the loop, otherwise
\* the loop goes to the next page or ends.
PdfLoopNext(ok, i, n) ==
    IF ~ok THEN "raise" ELSE IF i + 1 < n THEN "next" ELSE "return"

\* Mutant: a failed page is skipped and the loop goes on.
BatchPdfLoopNextSkipsFailure(ok, i, n) ==
    IF i + 1 < n THEN "next" ELSE IF ok THEN "return" ELSE "raise"

\* The same for the page loop of a PDF item of /ocr/batch.
BatchPdfLoopNext(ok, i, n) ==
    IF ~ok THEN "raise" ELSE IF i + 1 < n THEN "next" ELSE "return"

\* ------------------------------------------------------------------ inputs
Dims == {1, 100, 200, 1200, 1201, 2215, 2600, 4096, 5000}

ImageContents ==
    {ImageBytes(w, h, "RGB") : w \in Dims, h \in Dims}
        \cup {ImageBytes(1300, 700, m) : m \in {"RGBA", "P", "L", "LA"}}

ImageDpis == {58, 100, 180, 200, 300, 400}

ImageUploads ==
    {Upload(<<"scan", 0>>, CT(<<"image", "/", "png">>), c) :
        c \in ImageContents \cup {JunkBytes, PdfBytes(1)}}
        \cup {Upload(<<"scan", 0>>, ct, ImageBytes(100, 200, "RGB")) : ct \in ContentTypes}

PdfDpis == {72, 200, 400}

PdfUploads ==
    {Upload(<<"doc", n>>, CT(<<"application", "/", "pdf">>), PdfBytes(n)) :
        n \in 0..MaxPages}
        \cup {Upload(<<"doc", 0>>, CT(<<"application", "/", "pdf">>), c) :
                c \in {JunkBytes, ImageBytes(100, 200, "RGB")}}
        \cup {Upload(<<"doc", 1>>, ct, PdfBytes(1)) : ct \in ContentTypes}

BatchDpis == {200, 400}

BatchUploads ==
    {Upload(<<"doc", n>>, CT(<<"application", "/", "pdf">>), PdfBytes(n)) :
        n \in 0..MaxPages}
        \cup { Upload(<<"photo", 0>>, CT(<<"image", "/", "png">>), ImageBytes(1300, 700, "RGBA")),
               Upload(<<"broken", 0>>, CT(<<"image", "/", "png">>), JunkBytes),
               Upload(<<"corrupt", 0>>, CT(<<"application", "/", "pdf">>), JunkBytes),
               Upload(<<"notes", 0>>, CT(<<"text", "/", "plain">>), ImageBytes(100, 200, "RGB")),
               Upload(<<"blob", 0>>, NoneType, PdfBytes(1)) }

RECURSIVE SeqsUpTo(_, _)
SeqsUpTo(S, n) ==
    IF n = 0 THEN {<<>>}
    ELSE LET shorter == SeqsUpTo(S, n - 1)
         IN  shorter \cup {Append(q, x) : q \in shorter, x \in S}

\* ------------------------------------------------------------------- state
VARIABLES
    op,        \* the operation of the request: "none", "image", "pdf", "batch"
    files,     \* the uploaded files of the request
    dpi,       \* its dpi form field
    pc,        \* "idle", "await" (suspended in an inference call), "done"
    fi,        \* index in files of the file being processed
    images,    \* the images of that file: the decoded image, or the PDF's pages
    pi,        \* index in images of the page whose call is awaited
    pages,     \* the page entries collected for that file
    results,   \* the items of /ocr/batch collected so far
    calls,     \* every inference call issued, in the order of issue
    response   \* the HTTP response, once pc = "done"

vars == <<op, files, dpi, pc, fi, images, pi, pages, results, calls, response>>

NoReply == [kind |-> "none", status |-> 0, body |-> ""]

\* The POST to /api/generate for page p (1-based) of file f: its images field.
Call(f, p, image64) ==
    [file |-> f, page |-> p, image |-> image64, state |-> "pending", reply |-> NoReply]

\* The awaited call has returned with reply.
Returned(log, reply) ==
    [log EXCEPT ![Len(log)] = [@ EXCEPT !.state = "returned", !.reply = reply]]

Init ==
    /\ op = "none" /\ files = <<>> /\ dpi = BaselineDpi /\ pc = "idle"
    /\ fi = 0 /\ images = <<>> /\ pi = 0 /\ pages = <<>> /\ results = <<>>
    /\ calls = <<>> /\ response = NoResponse

\* The handler ends with response r.
Respond(r) ==
    /\ pc' = "done" /\ response' = r

\* The handler suspends in the inference call for page p of file f.
Await(f, imgs, p, image64) ==
    /\ pc' = "await" /\ fi' = f /\ images' = imgs /\ pi' = p
    /\ calls' = Append(calls, Call(f, p, image64))
    /\ response' = NoResponse

\* ------------------------------------------------------------- /ocr/image
\* ocr_image from the request to its inference call.
OcrImageStart ==
    /\ pc = "idle"
    /\ \E f \in ImageUploads, d \in ImageDpis :
        LET opened == ImageOpen(f.content)
            image == ConvertMode(opened.val)
            forOcr == ImageForOcr(image, d)
            failed(exc) == /\ Respond(ErrorResponse(exc))
                           /\ UNCHANGED <<fi, images, pi, calls>>
        IN  /\ op' = "image" /\ files' = <<f>> /\ dpi' = d
            /\ UNCHANGED <<pages, results>>
            /\ IF ~IsImageType(f.content_type)
               THEN failed(HTTPException(BadRequestStatus, <<"File must be an image">>))
               ELSE IF ~opened.ok THEN failed(opened.exc)
               ELSE IF ~forOcr.ok THEN failed(forOcr.exc)
               ELSE Await(1, <<image>>, 1, ImageToBase64(forOcr.val))

\* ocr_image from the return of its inference call to the response.
OcrImageReturn ==
    /\ op = "image" /\ pc = "await"
    /\ \E reply \in Replies :
        LET out == RunOcrOnImage(reply)
            preview == ImageToBase64ForPreview(
                           PreviewSource(images[1], ImageForOcr(images[1], dpi).val))
        IN  /\ calls' = Returned(calls, reply)
            /\ Respond(IF ~out.ok THEN ErrorResponse(out.exc)
                       ELSE IF ~preview.ok THEN ErrorResponse(preview.exc)
                       ELSE OkResponse([filename |-> files[1].filename,
                                        text |-> out.val,
                                        image |-> DataUri(preview.val)]))
            /\ UNCHANGED <<op, files, dpi, fi, images, pi, pages, results>>

\* --------------------------------------------------------------- /ocr/pdf
\* ocr_pdf from the request to its first inference call.
OcrPdfStart ==
    /\ pc = "idle"
    /\ \E f \in PdfUploads, d \in PdfDpis :
        LET raster == ConvertFromBytes(f.content, d)
            failed(exc) == /\ Respond(ErrorResponse(exc))
                           /\ UNCHANGED <<fi, images, pi, calls>>
        IN  /\ op' = "pdf" /\ files' = <<f>> /\ dpi' = d
            /\ UNCHANGED <<pages, results>>
            /\ IF ~IsPdfType(f.content_type)
               THEN failed(HTTPException(BadRequestStatus, <<"File must be a PDF">>))
               ELSE IF ~raster.ok
               THEN failed(HTTPException(BadRequestStatus,
                                         <<"Failed to process PDF: ", raster.exc.detail>>))
               ELSE IF raster.val = <<>>
               THEN /\ Respond(OkResponse([filename |-> f.filename,
                                           total_pages |-> 0, pages |-> <<>>]))
                    /\ images' = raster.val
                    /\ UNCHANGED <<fi, pi, calls>>
               ELSE Await(1, raster.val, 1, ImageToBase64(ConvertMode(raster.val[1])))

\* ocr_pdf from the return of one inference call to the next call, or to
\* the response.
OcrPdfReturn ==
    /\ op = "pdf" /\ pc = "await"
    /\ \E reply \in Replies :
        LET image == ConvertMode(images[pi])
            out == RunOcrOnImage(reply)
            preview == IF out.ok THEN ImageToBase64ForPreview(image) ELSE out
            step == PdfLoopNext(preview.ok, pi - 1, Len(images))
            collected == IF preview.ok
                         THEN Append(pages, PdfPageEntry(pi - 1, out.val, preview.val))
                         ELSE pages
        IN  /\ pages' = collected
            /\ UNCHANGED <<op, files, dpi, results>>
            /\ IF step = "raise"
               THEN /\ Respond(ErrorResponse(preview.exc))
                    /\ calls' = Returned(calls, reply)
                    /\ UNCHANGED <<fi, images, pi>>
               ELSE IF step = "next"
               THEN /\ pc' = "await" /\ pi' = pi + 1
                    /\ calls' = Append(Returned(calls, reply),
                                       Call(fi, pi + 1,
                                            ImageToBase64(ConvertMode(images[pi + 1]))))
                    /\ UNCHANGED <<fi, images, response>>
               ELSE /\ Respond(OkResponse([filename |-> files[1].filename,
                                           total_pages |-> Len(images),
                                           pages |-> collected]))
                    /\ calls' = Returned(calls, reply)
                    /\ UNCHANGED <<fi, images, pi>>

\* ------------------------------------------------------------- /ocr/batch
NoException == OtherException("", "")

\* The loop of ocr_batch over fs from the file of index k, res being the
\* items collected so far, up to its next suspension: the first inference
\* call of a file (pc "await", with the image to send), the return of the
\* handler (pc "done"), or an exception its handler does not catch
\* (pc "raised").
RECURSIVE BatchLoop(_, _, _, _)
BatchLoop(fs, d, k, res) ==
    IF k > Len(fs)
    THEN [pc |-> "done", fi |-> k, images |-> <<>>, results |-> res,
          image64 |-> <<>>, exc |-> NoException]
    ELSE LET f == fs[k]
             raster == ConvertFromBytes(f.content, d)
             opened == ImageOpen(f.content)
             image == ConvertMode(opened.val)
             forOcr == BatchImageForOcr(image, d)
             except(exc) ==
                 IF BatchCatches(exc)
                 THEN BatchLoop(fs, d, k + 1, Append(res, FailedItem(f, exc)))
                 ELSE [pc |-> "raised", fi |-> k, images |-> <<>>, results |-> res,
                       image64 |-> <<>>, exc |-> exc]
             await(imgs, image64) ==
                 [pc |-> "await", fi |-> k, images |-> imgs, results |-> res,
                  image64 |-> image64, exc |-> NoException]
         IN  IF IsPdfType(f.content_type)
             THEN IF ~raster.ok THEN except(raster.exc)
                  ELSE IF raster.val = <<>>
                  THEN BatchLoop(fs, d, k + 1, Append(res, PdfItem(f, raster.val, <<>>)))
                  ELSE await(raster.val, ImageToBase64(ConvertMode(raster.val[1])))
             ELSE IF IsImageType(f.content_type)
             THEN IF ~opened.ok THEN except(opened.exc)
                  ELSE IF ~forOcr.ok THEN except(forOcr.exc)
                  ELSE await(<<image>>, ImageToBase64(forOcr.val))
             ELSE BatchLoop(fs, d, k + 1, Append(res, UnknownItem(f)))

\* The state ocr_batch reaches by running its loop from file k.
BatchContinue(fs, d, k, res, log) ==
    LET st == BatchLoop(fs, d, k, res)
    IN  /\ results' = st.results
        /\ pages' = <<>>
        /\ IF st.pc = "await"
           THEN /\ pc' = "await" /\ fi' = st.fi /\ images' = st.images /\ pi' = 1
                /\ calls' = Append(log, Call(st.fi, 1, st.image64))
                /\ response' = NoResponse
           ELSE /\ Respond(IF st.pc = "done"
                           THEN OkResponse([results |-> st.results])
                           ELSE ErrorResponse(st.exc))
                /\ calls' = log
                /\ UNCHANGED <<fi, images, pi>>

\* ocr_batch from the request to its first inference call.
OcrBatchStart ==
    /\ pc = "idle"
    /\ \E fs \in SeqsUpTo(BatchUploads, MaxFiles), d \in BatchDpis :
        /\ op' = "batch" /\ files' = fs /\ dpi' = d
        /\ BatchContinue(fs, d, 1, <<>>, calls)

\* ocr_batch from the return of one inference call to the next call, or to
\* the response.
OcrBatchReturn ==
    /\ op = "batch" /\ pc = "await"
    /\ \E reply \in Replies :
        LET f == files[fi]
            out == RunOcrOnImage(reply)
            log == Returned(calls, reply)
            isPdf == IsPdfType(f.content_type)
            step == IF isPdf THEN BatchPdfLoopNext(out.ok, pi - 1, Len(images))
                    ELSE IF out.ok THEN "return" ELSE "raise"
            collected == IF isPdf /\ out.ok
                         THEN Append(pages, BatchPageEntry(pi - 1, out.val))
                         ELSE pages
        IN  /\ UNCHANGED <<op, files, dpi>>
            /\ IF step = "raise"
               THEN IF BatchCatches(out.exc)
                    THEN BatchContinue(files, dpi, fi + 1,
                                       Append(results, FailedItem(f, out.exc)), log)
                    ELSE /\ Respond(ErrorResponse(out.exc))
                         /\ calls' = log
                         /\ UNCHANGED <<fi, images, pi, pages, results>>
               ELSE IF step = "next"
               THEN /\ pc' = "await" /\ pi' = pi + 1 /\ pages' = collected
                    /\ calls' = Append(log, Call(fi, pi + 1,
                                                 ImageToBase64(ConvertMode(images[pi + 1]))))
                    /\ UNCHANGED <<fi, images, results, response>>
               ELSE BatchContinue(files, dpi, fi + 1,
                                  Append(results,
                                         IF isPdf THEN PdfItem(f, images, collected)
                                         ELSE ImageItem(f, out.val)),
                                  log)

Next ==
    \/ OcrImageStart
    \/ OcrImageReturn
    \/ OcrPdfStart
    \/ OcrPdfReturn
    \/ OcrBatchStart
    \/ OcrBatchReturn

Spec == Init /\ [][Next]_vars

\* -------------------------------------------------------------- properties
Min(x, y) == IF x <= y THEN x ELSE y

\* The call of index i of the log returned with a failure of the inference.
CallFailed(i) ==
    /\ calls[i].state = "returned"
    /\ \/ calls[i].reply.kind = "connect"
       \/ calls[i].reply.status < 200
       \/ calls[i].reply.status > 299
       \/ calls[i].reply.body \notin {"{\"response\": \"hello\"}", "{}"}

\* The text a successful call of index i returned.
CallText(i) == IF calls[i].reply.body = "{}" THEN "" ELSE "hello"

\* The declared type starts with "image/", is exactly "application/pdf".
DeclaredImage(ct) ==
    ~ct.isNone /\ Len(ct.s) >= 2 /\ ct.s[1] = "image" /\ ct.s[2] = "/"
DeclaredPdf(ct) ==
    ~ct.isNone /\ ct.s = <<"application", "/", "pdf">>

\* File k of the request cannot be processed without an inference call.
NeedsCall(k) ==
    \/ DeclaredPdf(files[k].content_type)
        /\ files[k].content.kind = "pdf" /\ files[k].content.npages > 0
    \/ ~DeclaredPdf(files[k].content_type)
        /\ DeclaredImage(files[k].content_type) /\ files[k].content.kind = "image"

\* Indices in the log of the calls made for file k.
CallsOf(k) == {i \in 1..Len(calls) : calls[i].file = k}

\* C1: /ocr/batch never raises: whatever happens to each file it ends with
\* status 200 and one item per input file, in input order, item k carrying
\* the filename of file k; while it runs, it has one item per file already
\* left behind.
C1_BatchAlwaysSucceeds ==
    op = "batch" =>
        /\ pc \in {"await", "done"}
        /\ pc = "done" =>
            /\ response.status = 200
            /\ response.body.results = results
            /\ Len(results) = Len(files)
        /\ pc = "await" => Len(results) = fi - 1 /\ fi <= Len(files)
        /\ \A k \in 1..Len(results) : results[k].filename = files[k].filename

C1_Witness ==
    /\ op = "batch" /\ pc = "done" /\ Len(files) = 2
    /\ files[1].content = JunkBytes /\ DeclaredPdf(files[1].content_type)
    /\ ~results[1].success
    /\ Len(calls) = 1 /\ calls[1].reply.kind = "connect"
    /\ response.status = 200

\* The item /ocr/batch owes file k, from the file and the replies to its own
\* calls alone.
OwnItem(k) ==
    LET f == files[k]
        mine == CallsOf(k)
        failed == {i \in mine : CallFailed(i)}
        first == CHOOSE i \in failed : TRUE
        exc == IF calls[first].reply.kind = "connect"
               THEN <<503, ": ", <<"Cannot connect to Ollama: ", calls[first].reply.body>>>>
               ELSE IF calls[first].reply.status # 200
               THEN <<calls[first].reply.status, ": ",
                      <<"Ollama error: ", calls[first].reply.body>>>>
               ELSE <<"Expecting value">>
        texts == [p \in 1..Cardinality(mine) |->
                    LET i == CHOOSE j \in mine : calls[j].page = p
                    IN  [page |-> p, text |-> CallText(i)]]
    IN  IF DeclaredPdf(f.content_type)
        THEN IF f.content.kind # "pdf"
             THEN [filename |-> f.filename, success |-> FALSE,
                   error |-> <<"Unable to get page count">>]
             ELSE IF failed # {}
             THEN [filename |-> f.filename, success |-> FALSE, error |-> exc]
             ELSE [filename |-> f.filename, type |-> "pdf",
                   total_pages |-> f.content.npages, pages |-> texts,
                   success |-> TRUE]
        ELSE IF DeclaredImage(f.content_type)
        THEN IF f.content.kind # "image"
             THEN [filename |-> f.filename, success |-> FALSE,
                   error |-> <<"cannot identify image file">>]
             ELSE IF failed # {}
             THEN [filename |-> f.filename, success |-> FALSE, error |-> exc]
             ELSE [filename |-> f.filename, type |-> "image",
                   text |-> CallText(CHOOSE i \in mine : TRUE), success |-> TRUE]
        ELSE [filename |-> f.filename, type |-> "unknown", success |-> FALSE,
              error |-> <<"Unsupported file type">>]

\* C2: in /ocr/batch a failure in file k does not abort its siblings: every
\* later file that needs inference still gets its call, the item of every
\* file is the one it would get whatever happened to the others, and after
\* a failed call for page j of a PDF no call is made for a later page of it.
C2_FailureIsolation ==
    op = "batch" =>
        /\ \A i \in 1..Len(calls) :
              CallFailed(i) =>
                  \A j \in 1..Len(calls) :
                      calls[j].file = calls[i].file => calls[j].page <= calls[i].page
        /\ \A k \in 1..Len(results) :
              /\ NeedsCall(k) => \E i \in CallsOf(k) : calls[i].page = 1
              /\ results[k] = OwnItem(k)
        /\ pc = "done" => Len(results) = Len(files)

C2_Witness ==
    /\ op = "batch" /\ pc = "done" /\ Len(files) = 2
    /\ files[1].content.npages = 2 /\ Len(calls) = 2
    /\ calls[1].file = 1 /\ calls[1].page = 1 /\ CallFailed(1)
    /\ calls[2].file = 2 /\ ~CallFailed(2)
    /\ ~results[1].success /\ results[2].success

\* C3: a success response of /ocr/pdf for a PDF of N pages has N page
\* entries numbered 1..N in order, total_pages = N, and entry i holds the
\* text the call for page i returned.
C3_PdfPagesMatch ==
    (op = "pdf" /\ pc = "done" /\ response.status = 200) =>
        LET n == files[1].content.npages
            body == response.body
        IN  /\ Len(body.pages) = n
            /\ body.total_pages = n
            /\ Len(calls) = n
            /\ \A i \in 1..n :
                  /\ body.pages[i].page = i
                  /\ calls[i].page = i
                  /\ calls[i].image.pix = <<"page", i>>
                  /\ ~CallFailed(i)
                  /\ body.pages[i].text = CallText(i)

C3_Witness ==
    /\ op = "pdf" /\ pc = "done" /\ response.status = 200
    /\ files[1].content.npages = 2
    /\ response.body.pages[1].text # response.body.pages[2].text

\* C4: in /ocr/image and /ocr/pdf a call answered with a non-2xx status s
\* ends the operation with HTTP status s and the upstream body in the
\* detail, a call whose connection fails ends it with 503; the two details
\* differ in kind, and no call follows either.
C4_UpstreamErrorsPropagate ==
    op \in {"image", "pdf"} =>
        \A i \in 1..Len(calls) :
            LET r == calls[i].reply
            IN  /\ (r.kind = "http" /\ (r.status < 200 \/ r.status > 299)) =>
                      /\ i = Len(calls) /\ pc = "done"
                      /\ response.status = r.status
                      /\ response.body.detail = <<"Ollama error: ", r.body>>
                /\ r.kind = "connect" =>
                      /\ i = Len(calls) /\ pc = "done"
                      /\ response.status = 503
                      /\ response.body.detail = <<"Cannot connect to Ollama: ", r.body>>

C4_Witness ==
    /\ op = "pdf" /\ pc = "done" /\ Len(calls) = 2
    /\ calls[2].reply.kind = "http" /\ calls[2].reply.status = 503
    /\ response.status = 503
    /\ response.body.detail[1] = "Ollama error: "

\* The size of the image the inference call of /ocr/image carries, and the
\* size of the uploaded image.
SentW == calls[1].image.w
SentH == calls[1].image.h
UploadW == files[1].content.w
UploadH == files[1].content.h

\* floor(x * dpi / 200)
FloorScaled(x) == (x * dpi) \div BaselineDpi

\* v is int(a * (n / d)) up to the rounding of the floating-point product:
\* floor(a*n/d), or one less when a*n/d is an integer.
Truncated(v, a, n, d) ==
    \/ v = (a * n) \div d
    \/ v = (a * n) \div d - 1 /\ (a * n) % d = 0

\* C5, as claimed: the image /ocr/image sends has the upload's size when
\* dpi = 200, otherwise (floor(W*dpi/200), floor(H*dpi/200)), both scaled
\* by the same ratio when one of those exceeds 4096; in every case neither
\* side of it exceeds 4096.
C5_AsClaimed ==
    (op = "image" /\ calls # <<>>) =>
        LET fw == FloorScaled(UploadW)
            fh == FloorScaled(UploadH)
            larger == Max(fw, fh)
        IN  /\ dpi = 200 => SentW = UploadW /\ SentH = UploadH
            /\ (dpi # 200 /\ fw <= 4096 /\ fh <= 4096) => SentW = fw /\ SentH = fh
            /\ (dpi # 200 /\ (fw > 4096 \/ fh > 4096)) =>
                  /\ Truncated(SentW, fw, 4096, larger)
                  /\ Truncated(SentH, fh, 4096, larger)
            /\ SentW <= 4096 /\ SentH <= 4096

\* C5, amended: at dpi = 200 the upload is sent as it is, whatever its size;
\* otherwise the size asked for is int(W * (dpi / 200)), int(H * (dpi / 200))
\* in floating point, which is the floor or, when W*dpi/200 is an integer and
\* dpi/200 is not a binary fraction (25 does not divide dpi), possibly one
\* less; when a side of it exceeds 4096 both are multiplied by 4096 over the
\* larger one and truncated; whenever dpi # 200 no side sent exceeds 4096.
C5_ScaledSizeAmended ==
    (op = "image" /\ calls # <<>>) =>
        /\ dpi = 200 => SentW = UploadW /\ SentH = UploadH
        /\ dpi # 200 =>
              /\ SentW <= 4096 /\ SentH <= 4096
              /\ \E w1 \in {FloorScaled(UploadW) - 1, FloorScaled(UploadW)},
                    h1 \in {FloorScaled(UploadH) - 1, FloorScaled(UploadH)} :
                    /\ Truncated(w1, UploadW, dpi, 200)
                    /\ Truncated(h1, UploadH, dpi, 200)
                    /\ dpi % 25 = 0 =>
                          w1 = FloorScaled(UploadW) /\ h1 = FloorScaled(UploadH)
                    /\ IF w1 <= 4096 /\ h1 <= 4096
                       THEN SentW = w1 /\ SentH = h1
                       ELSE /\ Truncated(SentW, w1, 4096, Max(w1, h1))
                            /\ Truncated(SentH, h1, 4096, Max(w1, h1))
        /\ (dpi = 400 /\ 2 * UploadW <= 4096 /\ 2 * UploadH <= 4096) =>
              SentW = 2 * UploadW /\ SentH = 2 * UploadH

C5_Witness ==
    /\ op = "image" /\ calls # <<>> /\ dpi = 400
    /\ UploadW = 2600 /\ UploadH = 1200
    /\ SentW = 4096 /\ SentH < 2 * UploadH

\* C6: the preview /ocr/image returns is made from the uploaded image, not
\* from the rescaled copy: its width is min(W, 1200) and its height follows
\* from W and H alone, whatever the dpi.
C6_PreviewFromOriginal ==
    (op = "image" /\ pc = "done" /\ response.status = 200) =>
        LET preview == response.body.image[2]
        IN  /\ preview.w = Min(UploadW, 1200)
            /\ preview.w <= 1200
            /\ IF UploadW <= 1200 THEN preview.h = UploadH
               ELSE Truncated(preview.h, UploadH, 1200, UploadW)
            /\ preview.format = "JPEG"

C6_Witness ==
    /\ op = "image" /\ pc = "done" /\ response.status = 200
    /\ UploadW = 2600 /\ dpi = 400
    /\ SentW = 4096 /\ response.body.image[2].w = 1200

\* C7: a file whose declared type the operation cannot use is never sent to
\* inference: /ocr/image without an image type and /ocr/pdf without exactly
\* application/pdf end with 400 and no call; in /ocr/batch a file that is
\* neither gets no call and the item type "unknown", success false, with the
\* fixed message.
C7_UnsupportedNeverSent ==
    /\ (op = "image" /\ ~DeclaredImage(files[1].content_type)) =>
          calls = <<>> /\ pc = "done" /\ response.status = 400
    /\ (op = "pdf" /\ ~DeclaredPdf(files[1].content_type)) =>
          calls = <<>> /\ pc = "done" /\ response.status = 400
    /\ op = "batch" =>
          \A k \in 1..Len(files) :
              (~DeclaredImage(files[k].content_type)
                  /\ ~DeclaredPdf(files[k].content_type)) =>
                  /\ CallsOf(k) = {}
                  /\ k <= Len(results) =>
                        results[k] = [filename |-> files[k].filename,
                                      type |-> "unknown", success |-> FALSE,
                                      error |-> <<"Unsupported file type">>]

C7_Witness ==
    /\ op = "batch" /\ pc = "done" /\ Len(files) = 2
    /\ files[1].content_type = NoneType
    /\ results[1].type = "unknown"
    /\ Len(calls) = 1 /\ calls[1].file = 2

\* C8, as claimed: every inference call of /ocr/batch carries the image the
\* single-file operation sends for that file and dpi: for an image file the
\* one /ocr/image sends (rescaled by dpi / 200, clamped to 4096), for a PDF
\* page the one /ocr/pdf sends.
C8_BatchSameAsSingle ==
    op = "batch" =>
        \A i \in 1..Len(calls) :
            LET f == files[calls[i].file]
                single == ImageForOcr(ConvertMode(ImageOpen(f.content).val), dpi)
                page == ConvertFromBytes(f.content, dpi).val[calls[i].page]
            IN  IF IsPdfType(f.content_type)
                THEN calls[i].image = ImageToBase64(ConvertMode(page))
                ELSE single.ok /\ calls[i].image = ImageToBase64(single.val)

\* C9, as claimed: every item of the results of /ocr/batch carries a
\* filename, a type among image, pdf and unknown, and a success flag, and
\* carries an error message exactly when success is false.
C9_ItemShape ==
    op = "batch" =>
        \A k \in 1..Len(results) :
            /\ {"filename", "type", "success"} \subseteq DOMAIN results[k]
            /\ results[k].type \in {"image", "pdf", "unknown"}
            /\ results[k].success \in BOOLEAN
            /\ ("error" \in DOMAIN results[k]) <=> ~results[k].success

\* The place of a call in the request: file first, then page.
Before(c1, c2) ==
    c1.file < c2.file \/ (c1.file = c2.file /\ c1.page < c2.page)

\* C10: within one /ocr/pdf or /ocr/batch request the inference calls are
\* issued one at a time, in file order then page order: a call is issued
\* only when every earlier one has returned, no page is called twice, pages
\* of a file are called in turn from page 1, and a failed call is the last
\* one of its file.
C10_SequentialCalls ==
    op \in {"pdf", "batch"} =>
        /\ \A i \in 1..Len(calls) :
              /\ i < Len(calls) => calls[i].state = "returned"
              /\ calls[i].page = 1
                    \/ (i > 1 /\ calls[i - 1].file = calls[i].file
                              /\ calls[i - 1].page = calls[i].page - 1)
              /\ CallFailed(i) =>
                    \A j \in 1..Len(calls) : j > i => calls[j].file > calls[i].file
        /\ \A i, j \in 1..Len(calls) : i < j => Before(calls[i], calls[j])
        /\ (pc = "await") <=> (calls # <<>> /\ calls[Len(calls)].state = "pending")

C10_Witness ==
    /\ op = "batch" /\ pc = "await" /\ Len(calls) = 3
    /\ calls[1].file = 1 /\ calls[2].file = 1 /\ calls[2].page = 2
    /\ CallFailed(2)
    /\ calls[3].file = 2 /\ calls[3].page = 1 /\ calls[3].state = "pending"
====
